---- MODULE Spec2Model ----
(***************************************************************************)
(* Titanic survival dashboards: the module-level data preparation and the  *)
(* aggregation helpers of the three Dash variants                          *)
(*   "app"         src/app.py                                              *)
(*   "titanic_app" src/titanic/app.py                                      *)
(*   "app1"        src/titanic/app1.py                                     *)
(* A numeric cell is a rational <<num, den>> or NaN (the empty tuple); a   *)
(* categorical cell is a string, "NaN" when missing.                       *)
(***************************************************************************)
EXTENDS Integers, Sequences, FiniteSets, TLC

VARIABLES variant, dataset, loads, pc, df, df_after, precalc, out, err

vars == <<variant, dataset, loads, pc, df, df_after, precalc, out, err>>

\* ------------------------------------------------------------------ bounds

\* Longest dataset (rows) the model loads.
MaxRows == 3

\* ------------------------------------------------------------- cell values

NaN == <<>>

NaStr == "NaN"

Num(n) == <<n, 1>>

Less(a, b) == a[1] * b[2] < b[1] * a[2]

Leq(a, b) == a[1] * b[2] <= b[1] * a[2]

SameNum(a, b) == a[1] * b[2] = b[1] * a[2]

Abs(n) == IF n < 0 THEN 0 - n ELSE n

RECURSIVE SumNum(_)
SumNum(s) == IF s = <<>> THEN 0 ELSE Head(s)[1] + SumNum(Tail(s))

Column(rows, f) == [i \in 1..Len(rows) |-> rows[i][f]]

NotNa(col) == SelectSeq(col, LAMBDA x : x # NaN)

\* df['age'].mean(): mean of the non-missing cells, NaN when there is none.
Mean(col) ==
    LET vals == NotNa(col)
    IN IF Len(vals) = 0 THEN NaN ELSE <<SumNum(vals), Len(vals)>>

\* Series.fillna(value) on one cell.
FillNa(x, na, value) == IF x = na THEN value ELSE x

\* ---------------------------------------------------------------- the mode

EmbarkedOrder == <<"C", "Q", "S">>

CountOf(col, v) == Cardinality({i \in 1..Len(col) : col[i] = v})

\* The distinct values of a column in order of first appearance.
RECURSIVE FirstSeen(_)
FirstSeen(col) ==
    IF col = <<>> THEN <<>>
    ELSE LET init == FirstSeen(SubSeq(col, 1, Len(col) - 1))
             x == col[Len(col)]
         IN IF \E i \in 1..Len(init) : init[i] = x THEN init ELSE Append(init, x)

\* A mode that lists the most frequent values unsorted, in row order.
ModeUnsorted(col) ==
    LET present == {col[i] : i \in 1..Len(col)} \ {NaStr}
        best(v) == v \in present /\ \A w \in present : CountOf(col, w) <= CountOf(col, v)
    IN SelectSeq(FirstSeen(col), best)

\* Series.mode(): the most frequent non-missing values in sorted order.
Mode(col) ==
    LET present == {col[i] : i \in 1..Len(col)} \ {NaStr}
        best(v) == v \in present /\ \A w \in present : CountOf(col, w) <= CountOf(col, v)
    IN SelectSeq(EmbarkedOrder, best)

\* ------------------------------------------------------------------ pd.cut

\* np.searchsorted(bins, x, side): the number of edges before x.
SearchSorted(bins, x, side) ==
    Cardinality({i \in 1..Len(bins) :
                    IF side = "left" THEN Less(bins[i], x) ELSE Leq(bins[i], x)})

\* pandas _bins_to_cuts on one cell: the label of the bin x falls in.
BinsToCuts(x, bins, labels, right, include_lowest) ==
    IF x = NaN THEN NaStr
    ELSE LET s == SearchSorted(bins, x, IF right THEN "left" ELSE "right")
             ids == IF include_lowest /\ SameNum(x, bins[1]) THEN 1 ELSE s
         IN IF ids = Len(bins) \/ ids = 0 THEN NaStr ELSE labels[ids]

AgeBins == <<Num(0), Num(13), Num(19), Num(60), Num(100)>>

AgeLabels == <<"Child", "Teenager", "Adult", "Senior">>

\* pd.cut(df['age'], bins=bins, labels=labels, right=False, ...)
AgeGroup(age) ==
    BinsToCuts(age, AgeBins, AgeLabels, FALSE, variant # "app1")

\* ----------------------------------------------------------------- pd.qcut

RECURSIVE Unique(_)
Unique(s) ==
    IF Len(s) <= 1 THEN s
    ELSE IF s[1] = s[2] THEN Unique(Tail(s))
         ELSE <<s[1]>> \o Unique(Tail(s))

Sorted(col) == SortSeq(NotNa(col), LAMBDA a, b : Less(a, b))

\* Series.quantile(k/4), linear interpolation, in quarters; cells are n/1.
Quantile(vals, k) ==
    IF Len(vals) = 0 THEN NaN
    ELSE LET h == k * (Len(vals) - 1)
             i == (h \div 4) + 1
             frac == h % 4
         IN IF frac = 0 THEN <<4 * vals[i][1], 4>>
            ELSE <<4 * vals[i][1] + frac * (vals[i + 1][1] - vals[i][1]), 4>>

QuartileEdges(col) ==
    LET vals == Sorted(col) IN Unique([k \in 1..5 |-> Quantile(vals, k - 1)])

QLabels == <<"Q1 (Low)", "Q2", "Q3", "Q4 (High)">>

\* "Bin labels must be one fewer than the number of bin edges"
QCutRaises(col) == Len(QuartileEdges(col)) - 1 # Len(QLabels)

\* pd.qcut(df['fare'], q=4, labels=[...], duplicates='drop') on one cell.
QCut(x, col) == BinsToCuts(x, QuartileEdges(col), QLabels, TRUE, TRUE)

\* -------------------------------------------------- pd.cut(..., bins=3)

CutLabels == <<"Low", "Medium", "High">>

\* pandas _nbins_to_bins: 4 equally spaced edges over [min, max] in 3000ths.
EqualWidthEdges(col) ==
    LET vals == Sorted(col)
        mn == vals[1][1]
        mx == vals[Len(vals)][1]
        lo == IF mn # 0 THEN 1000 * mn - Abs(mn) ELSE 0 - 1
        hi == IF mx # 0 THEN 1000 * mx + Abs(mx) ELSE 1
    IN IF mn = mx
       THEN [k \in 1..4 |-> <<3 * lo + (k - 1) * (hi - lo), 3000>>]
       ELSE [k \in 1..4 |->
                IF k = 1 THEN <<3000 * mn - 3 * (mx - mn), 3000>>
                ELSE <<3000 * mn + (k - 1) * 1000 * (mx - mn), 3000>>]

\* "Cannot cut empty array" / "Bin edges must be unique" (all fares missing)
CutRaises(col) == Len(col) = 0 \/ Len(NotNa(col)) = 0

\* pd.cut(df['fare'], bins=3, labels=['Low', 'Medium', 'High']) on one cell.
CutFare(x, col) == BinsToCuts(x, EqualWidthEdges(col), CutLabels, TRUE, FALSE)

\* ------------------------------------------------------------- data frames

RawColumns == {"survived", "pclass", "sex", "age", "sibsp", "parch", "fare", "embarked"}

\* pd.DataFrame(): no rows and no columns.
EmptyFrame == [columns |-> {}, rows |-> <<>>]

\* DataFrame.empty
IsEmpty(frame) == Len(frame.rows) = 0 \/ frame.columns = {}

SetCol(rows, f, col) == [i \in 1..Len(rows) |-> (f :> col[i]) @@ rows[i]]

KeepAll(frame, f, v) == frame

\* df[df[f] == v]: the rows whose cell equals v, in order, index labels kept.
Where(frame, f, v) ==
    [columns |-> frame.columns, rows |-> SelectSeq(frame.rows, LAMBDA r : r[f] = v)]

\* -------------------------------------------------------- the source file

DefaultRow ==
    [survived |-> 0, pclass |-> 3, sex |-> "male", age |-> Num(30), sibsp |-> 0,
     parch |-> 0, fare |-> Num(8), embarked |-> "S"]

AgeValues == {NaN, Num(12), Num(13), Num(60), Num(100)}

FareValues == {NaN, Num(5), Num(10)}

AgeRows == {[DefaultRow EXCEPT !.age = a, !.survived = s] : a \in AgeValues, s \in {0, 1}}

FareRows == {[DefaultRow EXCEPT !.fare = f, !.survived = s] : f \in FareValues, s \in {0, 1}}

SexRows ==
    {[DefaultRow EXCEPT !.sex = x, !.pclass = c, !.survived = s] :
        x \in {"male", "female"}, c \in {1, 3}, s \in {0, 1}}

FamilyRows ==
    {[DefaultRow EXCEPT !.embarked = e, !.sibsp = b, !.survived = 1 - b] :
        e \in {NaStr, "C", "S"}, b \in {0, 1}}

SeqsUpTo(S, n) == UNION {[1..k -> S] : k \in 0..n}

\* The RangeIndex labels 0..n-1 read_csv gives the rows.
Indexed(t) == [i \in 1..Len(t) |-> ("index" :> (i - 1)) @@ t[i]]

\* Pairwise different fares, so that the fare quartiles are distinct.
Spread(t) == [i \in 1..Len(t) |-> [t[i] EXCEPT !.fare = Num(5 * i)]]

Datasets ==
    {Indexed(t) : t \in SeqsUpTo(FareRows, MaxRows)}
    \cup {Indexed(Spread(t)) : t \in SeqsUpTo(FamilyRows, MaxRows)}
    \cup {Indexed(Spread(t)) : t \in SeqsUpTo(AgeRows, MaxRows - 1)}
    \cup {Indexed(Spread(t)) : t \in SeqsUpTo(SexRows, MaxRows - 1)}

Bars(data) == [kind |-> "bars", data |-> data]

\* go.Figure().add_annotation(text="No data available for this chart.")
NoData == [kind |-> "annotation", data |-> <<>>]

NoFigure == [kind |-> "none", data |-> <<>>]

Result(call, sel, error, before, after, rate) ==
    [call |-> call, selected |-> sel, error |-> error,
     before |-> before, after |-> after, rate |-> rate]

Variants == {"app", "titanic_app", "app1"}

Init ==
    /\ variant \in Variants
    /\ loads \in BOOLEAN
    /\ dataset \in (IF loads THEN Datasets ELSE {<<>>})
    /\ pc = "load"
    /\ df = EmptyFrame
    /\ df_after = EmptyFrame
    /\ precalc = <<>>
    /\ out = Result("none", "none", "none", NoFigure, NoFigure, NoFigure)
    /\ err = "none"

\* ---------------------------------------------------------------- start-up

Raise(e) ==
    /\ pc' = "crashed"
    /\ err' = e

\* df = sns.load_dataset('titanic'), guarded by try/except in src/app.py only.
LoadDataset ==
    /\ pc = "load"
    /\ IF loads
       THEN /\ df' = [columns |-> RawColumns, rows |-> dataset]
            /\ pc' = "impute"
            /\ err' = err
       ELSE IF variant = "app"
            THEN /\ df' = EmptyFrame
                 /\ pc' = "impute"
                 /\ err' = err
            ELSE /\ df' = df
                 /\ Raise("load")
    /\ UNCHANGED <<variant, dataset, loads, df_after, precalc, out>>

\* mean_age / fillna(mean_age); most_common_embarked = mode()[0] / fillna.
Impute ==
    /\ pc = "impute"
    /\ IF variant = "app" /\ IsEmpty(df)
       THEN /\ pc' = "derive"
            /\ UNCHANGED <<df, err>>
       ELSE LET mean_age == Mean(Column(df.rows, "age"))
                ages == [i \in 1..Len(df.rows) |-> FillNa(df.rows[i].age, NaN, mean_age)]
                modes == Mode(Column(df.rows, "embarked"))
            IN IF Len(modes) = 0
               THEN /\ df' = [df EXCEPT !.rows = SetCol(df.rows, "age", ages)]
                    /\ Raise("KeyError")
               ELSE LET most_common_embarked == modes[1]
                        ports == [i \in 1..Len(df.rows) |->
                                     FillNa(df.rows[i].embarked, NaStr, most_common_embarked)]
                    IN /\ df' = [df EXCEPT !.rows =
                                    SetCol(SetCol(df.rows, "age", ages), "embarked", ports)]
                       /\ pc' = "engineer"
                       /\ err' = err
    /\ UNCHANGED <<variant, dataset, loads, df_after, precalc, out>>

SexLabel(sex) ==
    IF sex = "male" THEN "Male" ELSE IF sex = "female" THEN "Female" ELSE NaStr

\* A family size that leaves the passenger out.
FamilySizeWithoutSelf(r) == r.sibsp + r.parch

FamilySize(r) == r.sibsp + r.parch + 1

\* sex_label, age_group and family_size.
Engineer ==
    /\ pc = "engineer"
    /\ LET rows == df.rows
           n == Len(rows)
           r1 == SetCol(rows, "sex_label", [i \in 1..n |-> SexLabel(rows[i].sex)])
           r2 == SetCol(r1, "age_group", [i \in 1..n |-> AgeGroup(rows[i].age)])
           r3 == SetCol(r2, "family_size", [i \in 1..n |-> FamilySize(rows[i])])
       IN df' = [columns |-> df.columns \cup {"sex_label", "age_group", "family_size"},
                 rows |-> r3]
    /\ pc' = "farebin"
    /\ UNCHANGED <<variant, dataset, loads, df_after, precalc, out, err>>

\* fare_group: pd.qcut, and in src/app.py the pd.cut fallback on ValueError.
BinFare ==
    /\ pc = "farebin"
    /\ LET fares == Column(df.rows, "fare")
           n == Len(df.rows)
           withGroup(col) == [columns |-> df.columns \cup {"fare_group"},
                              rows |-> SetCol(df.rows, "fare_group", col)]
       IN IF ~QCutRaises(fares)
          THEN /\ df' = withGroup([i \in 1..n |-> QCut(fares[i], fares)])
               /\ pc' = "derive"
               /\ err' = err
          ELSE IF variant = "app" /\ ~CutRaises(fares)
               THEN /\ df' = withGroup([i \in 1..n |-> CutFare(fares[i], fares)])
                    /\ pc' = "derive"
                    /\ err' = err
               ELSE /\ df' = df
                    /\ Raise("ValueError")
    /\ UNCHANGED <<variant, dataset, loads, df_after, precalc, out>>

\* ------------------------------------------------------------- aggregation

IntFeatures == {"pclass", "family_size"}

\* The distinct non-missing values of a column.
Observed(rows, f) ==
    LET vals == {rows[i][f] : i \in 1..Len(rows)}
    IN IF f \in IntFeatures THEN vals ELSE vals \ {NaStr}

Range(s) == {s[i] : i \in 1..Len(s)}

\* The categories of a Categorical column (pd.cut / pd.qcut with labels).
Categories(rows, f) ==
    IF f = "age_group" THEN Range(AgeLabels)
    ELSE IF f = "fare_group" THEN Range(QLabels)
    ELSE Observed(rows, f)

Group(rows, f, c) == SelectSeq(rows, LAMBDA r : r[f] = c)

\* Series.astype(str) on the category axis of an aggregate.
AsStr(data) ==
    LET keys == DOMAIN data
    IN [t \in {ToString(k) : k \in keys} |-> data[CHOOSE k \in keys : ToString(k) = t]]

\* data_df[feature].value_counts(): NaN dropped, every category of a
\* Categorical column listed.
ValueCounts(rows, f) == [c \in Categories(rows, f) |-> Len(Group(rows, f, c))]

\* px.histogram(data_df, x=feature, color=feature): one bar per value present.
Histogram(rows, f) == [c \in Observed(rows, f) |-> Len(Group(rows, f, c))]

\* get_composition_fig(data_df, feature, ...)
CompositionFig(frame, f) ==
    IF variant = "app"
    THEN IF IsEmpty(frame) THEN NoData ELSE Bars(Histogram(frame.rows, f))
    ELSE LET plot_df == ValueCounts(frame.rows, f)
         IN Bars(IF f = "pclass" THEN AsStr(plot_df) ELSE plot_df)

Survivors(rows) == Len(SelectSeq(rows, LAMBDA r : r.survived = 1))

\* numpy round to the nearest integer, ties to even, of num/den.
RoundHalfEven(num, den) ==
    LET q == num \div den
        rem == num % den
    IN IF 2 * rem < den THEN q
       ELSE IF 2 * rem > den THEN q + 1
       ELSE IF q % 2 = 0 THEN q ELSE q + 1

\* calculate_survival_rate(data, group_col): 100 * mean(survived) per group.
CalculateSurvivalRate(rows, f) ==
    [c \in Observed(rows, f) |->
        LET g == Group(rows, f, c) IN <<100 * Survivors(g), Len(g)>>]

\* src/app.py: df.groupby(feature)['survived'].mean(), times 100, .round(2).
RoundedSurvivalRate(rows, f) ==
    [c \in Observed(rows, f) |->
        LET g == Group(rows, f, c)
        IN <<RoundHalfEven(10000 * Survivors(g), Len(g)), 100>>]

\* A rate pane drawn from the survivors table.
SurvivalFigOfSurvivors(frame, f) ==
    IF variant = "app"
    THEN IF IsEmpty(df_after) THEN NoData ELSE Bars(RoundedSurvivalRate(df_after.rows, f))
    ELSE LET survival_df == CalculateSurvivalRate(df_after.rows, f)
         IN Bars(IF f = "pclass" THEN AsStr(survival_df) ELSE survival_df)

\* get_survival_fig(data_df, feature, title); src/app.py groups the module's
\* df, whatever data_df is.
SurvivalFig(frame, f) ==
    IF variant = "app"
    THEN IF IsEmpty(frame) THEN NoData ELSE Bars(RoundedSurvivalRate(df.rows, f))
    ELSE LET survival_df == CalculateSurvivalRate(frame.rows, f)
         IN Bars(IF f = "pclass" THEN AsStr(survival_df) ELSE survival_df)

\* ------------------------------------------------------- derived frames

\* The pre-calculated tables of src/titanic/app1.py.
Precalculated ==
    [g \in {"Survival by Sex", "Survival by Age Group", "Survival by Passenger Class",
            "Women Survival by Passenger Class", "Survival by Fare Quartile",
            "Survival by Family Size"} |->
        CASE g = "Survival by Sex" -> CalculateSurvivalRate(df.rows, "sex_label")
          [] g = "Survival by Age Group" -> CalculateSurvivalRate(df.rows, "age_group")
          [] g = "Survival by Passenger Class" -> CalculateSurvivalRate(df.rows, "pclass")
          [] g = "Women Survival by Passenger Class" ->
                 CalculateSurvivalRate(Where(df, "sex", "female").rows, "pclass")
          [] g = "Survival by Fare Quartile" -> CalculateSurvivalRate(df.rows, "fare_group")
          [] OTHER -> CalculateSurvivalRate(df.rows, "family_size")]

\* df_after = df[df['survived'] == 1].copy(); app1.py builds its rate tables.
Derive ==
    /\ pc = "derive"
    /\ IF variant = "app1"
       THEN /\ precalc' = Precalculated
            /\ pc' = "serving"
            /\ UNCHANGED <<df_after, err>>
       ELSE IF "survived" \in df.columns
            THEN /\ df_after' = Where(df, "survived", 1)
                 /\ pc' = "serving"
                 /\ UNCHANGED <<precalc, err>>
            ELSE /\ Raise("KeyError")
                 /\ UNCHANGED <<df_after, precalc>>
    /\ UNCHANGED <<variant, dataset, loads, df, out>>

\* ---------------------------------------------------------------- callbacks

FEATURE_OPTIONS ==
    IF variant = "app"
    THEN [k \in {"Passenger Class", "Sex", "Age Group", "Embarked Location",
                 "Family Size", "Fare Group"} |->
             CASE k = "Passenger Class" -> "pclass"
               [] k = "Sex" -> "sex_label"
               [] k = "Age Group" -> "age_group"
               [] k = "Embarked Location" -> "embarked"
               [] k = "Family Size" -> "family_size"
               [] OTHER -> "fare_group"]
    ELSE [k \in {"Passenger Class", "Sex", "Age Group", "Fare Quartile", "Family Size"} |->
             CASE k = "Passenger Class" -> "pclass"
               [] k = "Sex" -> "sex_label"
               [] k = "Age Group" -> "age_group"
               [] k = "Fare Quartile" -> "fare_group"
               [] OTHER -> "family_size"]

GRAPH_OPTIONS == precalc

\* What the dropdown, or a hand-made request, can send.
Selections ==
    {"Passenger Class", "Sex", "Age Group", "Embarked Location", "Family Size",
     "Fare Group", "Fare Quartile", "Cabin"}

GraphSelections ==
    {"Survival by Sex", "Survival by Age Group", "Survival by Passenger Class",
     "Women Survival by Passenger Class", "Survival by Fare Quartile",
     "Survival by Family Size", "Cabin"}

\* A callback whose lookup falls back on the first entry of the mapping,
\* FEATURE_OPTIONS.get(title, default), for a title it does not know.
update_graphs_defaulting(sel) ==
    /\ pc = "serving"
    /\ variant # "app1"
    /\ LET feature_col == IF sel \in DOMAIN FEATURE_OPTIONS
                          THEN FEATURE_OPTIONS[sel] ELSE "pclass"
       IN out' = Result("update_graphs", sel, "none", CompositionFig(df, feature_col),
                        CompositionFig(df_after, feature_col), SurvivalFig(df, feature_col))
    /\ UNCHANGED <<variant, dataset, loads, pc, df, df_after, precalc, err>>

\* A callback that keeps the figures it built last and hands them out again
\* for whatever is selected next.
update_graphs_memo(sel) ==
    /\ pc = "serving"
    /\ variant # "app1"
    /\ IF out.call = "update_graphs" /\ out.error = "none"
       THEN out' = [out EXCEPT !.selected = sel]
       ELSE IF sel \in DOMAIN FEATURE_OPTIONS
            THEN LET feature_col == FEATURE_OPTIONS[sel]
                 IN out' = Result("update_graphs", sel, "none",
                                  CompositionFig(df, feature_col),
                                  CompositionFig(df_after, feature_col),
                                  SurvivalFig(df, feature_col))
            ELSE out' = Result("update_graphs", sel, "TypeError",
                               NoFigure, NoFigure, NoFigure)
    /\ UNCHANGED <<variant, dataset, loads, pc, df, df_after, precalc, err>>

\* update_graphs(selected_feature_title) of src/app.py and src/titanic/app.py.
update_graphs(sel) ==
    /\ pc = "serving"
    /\ variant # "app1"
    /\ IF sel \in DOMAIN FEATURE_OPTIONS
       THEN LET feature_col == FEATURE_OPTIONS[sel]
            IN out' = Result("update_graphs", sel, "none",
                             CompositionFig(df, feature_col),
                             CompositionFig(df_after, feature_col),
                             SurvivalFig(df, feature_col))
       ELSE out' = Result("update_graphs", sel, "TypeError", NoFigure, NoFigure, NoFigure)
    /\ UNCHANGED <<variant, dataset, loads, pc, df, df_after, precalc, err>>

\* update_graph(selected_graph_title) of src/titanic/app1.py.
update_graph(sel) ==
    /\ pc = "serving"
    /\ variant = "app1"
    /\ IF sel \in DOMAIN GRAPH_OPTIONS
       THEN out' = Result("update_graph", sel, "none", NoFigure, NoFigure,
                          Bars(GRAPH_OPTIONS[sel]))
       ELSE out' = Result("update_graph", sel, "TypeError", NoFigure, NoFigure, NoFigure)
    /\ UNCHANGED <<variant, dataset, loads, pc, df, df_after, precalc, err>>

\* A direct call get_survival_fig(df_after, feature, title).
CallSurvivalFig(f) ==
    /\ pc = "serving"
    /\ variant # "app1"
    /\ out' = Result("get_survival_fig", f, "none", NoFigure, NoFigure,
                     SurvivalFig(df_after, f))
    /\ UNCHANGED <<variant, dataset, loads, pc, df, df_after, precalc, err>>

Features == {"pclass", "sex_label", "age_group", "embarked", "family_size", "fare_group"}

Next ==
    \/ LoadDataset
    \/ Impute
    \/ Engineer
    \/ BinFare
    \/ Derive
    \/ \E sel \in Selections : update_graphs(sel)
    \/ \E sel \in GraphSelections : update_graph(sel)
    \/ \E f \in Features : CallSurvivalFig(f)

Spec == Init /\ [][Next]_vars

\* ------------------------------------------- the chart functions as a library

\* survived_map of get_age_distribution_fig.
SurvivedLabel(s) == IF s = 0 THEN "Not survived (0)" ELSE "Survived (1)"

\* df['survived_label'] = df['survived'].map(survived_map): the column is
\* written into the frame the caller passed.
WithSurvivedLabel(frame) ==
    [columns |-> frame.columns \cup {"survived_label"},
     rows |-> SetCol(frame.rows, "survived_label",
                     [i \in 1..Len(frame.rows) |-> SurvivedLabel(frame.rows[i].survived)])]

\* One violin trace per survival status that has an age.
Violin(frame) ==
    LET ages(s) == NotNa(Column(Where(frame, "survived", s).rows, "age"))
    IN [kind |-> "violin",
        data |-> [s \in {t \in {0, 1} : Len(ages(t)) > 0} |-> ages(s)]]

\* get_age_distribution_fig(df) of src/titanic/survival.py, called on one of
\* the two tables of a dashboard.
get_age_distribution_fig(table) ==
    /\ pc = "serving"
    /\ variant # "app1"
    /\ IF table = "df"
       THEN /\ df' = WithSurvivedLabel(df)
            /\ df_after' = df_after
            /\ out' = Result("get_age_distribution_fig", table, "none",
                             NoFigure, NoFigure, Violin(df))
       ELSE /\ df_after' = WithSurvivedLabel(df_after)
            /\ df' = df
            /\ out' = Result("get_age_distribution_fig", table, "none",
                             NoFigure, NoFigure, Violin(df_after))
    /\ UNCHANGED <<variant, dataset, loads, pc, precalc, err>>

Tables == {"df", "df_after"}

\* data_df['survived'].value_counts(): the counts of the outcomes present,
\* the larger count first (equal counts in either order are the same sizes).
SurvivedCounts(rows) ==
    LET n0 == Len(rows) - Survivors(rows)
        n1 == Survivors(rows)
    IN IF n0 = 0 THEN (IF n1 = 0 THEN <<>> ELSE <<n1>>)
       ELSE IF n1 = 0 THEN <<n0>>
       ELSE IF n1 > n0 THEN <<n1, n0>> ELSE <<n0, n1>>

PieLabels == <<"Did not survive", "Survived">>

\* plt.pie(sizes, labels=labels): the k-th label goes to the k-th size.
Pie(sizes, labels) ==
    [kind |-> "pie",
     data |-> [l \in Range(labels) |-> sizes[CHOOSE k \in 1..Len(labels) : labels[k] = l]]]

\* Survival(data_df) of src/titanic/graph.py, called on one of the tables;
\* plt.pie raises ValueError when labels and sizes differ in length.
Survival(table) ==
    /\ pc = "serving"
    /\ table = "df_after" => variant # "app1"
    /\ LET data_df == IF table = "df" THEN df ELSE df_after
           sizes == SurvivedCounts(data_df.rows)
       IN IF Len(sizes) # Len(PieLabels)
          THEN out' = Result("Survival", table, "ValueError", NoFigure, NoFigure, NoFigure)
          ELSE out' = Result("Survival", table, "none", Pie(sizes, PieLabels),
                             NoFigure, NoFigure)
    /\ UNCHANGED <<variant, dataset, loads, pc, df, df_after, precalc, err>>

NextCharts ==
    \/ Next
    \/ \E table \in Tables : get_age_distribution_fig(table)
    \/ \E table \in Tables : Survival(table)

SpecCharts == Init /\ [][NextCharts]_vars

\* ------------------------------------------------ a figure function raising

\* The three outputs of update_graphs, in the order it builds them.
Panes == <<"before", "after", "rate">>

Raised(pane) == "raised in fig_" \o pane

\* update_graphs when the call that builds one pane's figure raises (pandas
\* or plotly failing inside get_composition_fig / get_survival_fig): the
\* function has no try/except, the exception leaves update_graphs and the
\* figures already built are dropped with it.
update_graphs_raising(sel, pane) ==
    /\ pc = "serving"
    /\ variant # "app1"
    /\ sel \in DOMAIN FEATURE_OPTIONS
    /\ out' = Result("update_graphs", sel, Raised(pane), NoFigure, NoFigure, NoFigure)
    /\ UNCHANGED <<variant, dataset, loads, pc, df, df_after, precalc, err>>

NextFaults ==
    \/ Next
    \/ \E sel \in Selections : \E k \in 1..Len(Panes) : update_graphs_raising(sel, Panes[k])

SpecFaults == Init /\ [][NextFaults]_vars

\* ------------------------------------------------------------------ claims

Prepared == pc \in {"derive", "serving"} /\ "fare_group" \in df.columns

RECURSIVE SumCounts(_, _)
SumCounts(data, keys) ==
    IF keys = {} THEN 0
    ELSE LET k == CHOOSE x \in keys : TRUE
         IN data[k] + SumCounts(data, keys \ {k})

Total(fig) == SumCounts(fig.data, DOMAIN fig.data)

\* The feature column and the table the last call aggregated.
OutFeature ==
    IF out.call = "update_graphs" THEN FEATURE_OPTIONS[out.selected] ELSE out.selected

OutRateTable == IF out.call = "update_graphs" THEN df ELSE df_after

\* Some age is present, so the mean that replaces the missing ages exists.
AgesPresent == Len(NotNa(Column(dataset, "age"))) > 0

Answered == out.call \in {"update_graphs", "get_survival_fig"} /\ out.error = "none"

\* C1: once preparation is done, df_after holds exactly the rows of df with
\* survived == 1, each once and no other row, so that filtering df by
\* survived == 1 again gives the same rows.
C1_SurvivorsExact ==
    (pc = "serving" /\ variant # "app1") =>
        /\ \A i \in 1..Len(df_after.rows) :
               /\ df_after.rows[i].survived = 1
               /\ \E j \in 1..Len(df.rows) : df.rows[j] = df_after.rows[i]
        /\ \A j \in 1..Len(df.rows) :
               df.rows[j].survived = 1 =>
                   Cardinality({i \in 1..Len(df_after.rows) :
                                   df_after.rows[i] = df.rows[j]}) = 1
        /\ Range(df_after.rows) = {r \in Range(df.rows) : r.survived = 1}
        /\ Len(df_after.rows) = Survivors(df.rows)

C1_Witness ==
    /\ pc = "serving"
    /\ variant = "titanic_app"
    /\ Len(df.rows) = 3
    /\ Len(df_after.rows) = 2
    /\ df.rows[2].survived = 0

\* C2: every row with an age has an age_group among the four labels, the one
\* of its interval: [0,13) Child, [13,19) Teenager, [19,60) Adult and
\* [60,100] Senior, an age of exactly 100 included.
C2_AgeGroupBoundaries ==
    "age_group" \in df.columns =>
        \A i \in 1..Len(df.rows) :
            LET r == df.rows[i]
                in(lo, hi) == Leq(Num(lo), r.age) /\ Less(r.age, Num(hi))
            IN r.age # NaN =>
                   /\ r.age_group \in Range(AgeLabels)
                   /\ in(0, 13) => r.age_group = "Child"
                   /\ in(13, 19) => r.age_group = "Teenager"
                   /\ in(19, 60) => r.age_group = "Adult"
                   /\ (Leq(Num(60), r.age) /\ Leq(r.age, Num(100))) => r.age_group = "Senior"

\* C3: the counts of a composition sum to the number of rows of the table it
\* was given, for the population table and for the survivors table (stated
\* for the datasets in which some age is present).
C3_CountsSumToRows ==
    (pc = "serving" /\ out.call = "update_graphs" /\ out.error = "none" /\ AgesPresent) =>
        /\ Total(out.before) = Len(df.rows)
        /\ Total(out.after) = Len(df_after.rows)

\* C4: a composition lists only values that occur in its table: every count
\* it returns is at least 1 (stated for the datasets in which some age is
\* present).
C4_NoZeroCountCategory ==
    (pc = "serving" /\ out.call = "update_graphs" /\ out.error = "none" /\ AgesPresent) =>
        /\ \A c \in DOMAIN out.before.data : out.before.data[c] >= 1
        /\ \A c \in DOMAIN out.after.data : out.after.data[c] >= 1

\* The categories of column f present in rows, as the figure names them.
OutKeys(rows, f) ==
    IF f = "pclass" /\ variant = "titanic_app"
    THEN {ToString(k) : k \in Observed(rows, f)}
    ELSE Observed(rows, f)

OutGroup(rows, f, c) ==
    IF f = "pclass" /\ variant = "titanic_app"
    THEN SelectSeq(rows, LAMBDA r : ToString(r[f]) = c)
    ELSE Group(rows, f, c)

\* rate is num/den to within half a hundredth.
Within2Decimals(rate, num, den) ==
    200 * Abs(rate[1] * den - num * rate[2]) <= rate[2] * den

\* C5: the survival-rate result has one entry per feature value of the table
\* it was passed, and each rate is 100 * survivors / rows of that group of the
\* passed table (to the second decimal).
C5_RateOfPassedTable ==
    (pc = "serving" /\ Answered /\ ~IsEmpty(OutRateTable)) =>
        LET rows == OutRateTable.rows
            f == OutFeature
        IN /\ DOMAIN out.rate.data = OutKeys(rows, f)
           /\ \A c \in DOMAIN out.rate.data :
                  LET g == OutGroup(rows, f, c)
                  IN Len(g) > 0 /\ Within2Decimals(out.rate.data[c], 100 * Survivors(g), Len(g))

\* C6: every returned rate carries at most one decimal digit.
C6_OneDecimal ==
    (pc = "serving" /\ out.error = "none") =>
        \A c \in DOMAIN out.rate.data :
            (10 * out.rate.data[c][1]) % out.rate.data[c][2] = 0

\* C7: in src/app.py, whose load has the empty-table fallback, start-up never
\* raises when the load fails or the dataset has no rows.
C7_EmptyStartupDoesNotRaise ==
    (variant = "app" /\ (~loads \/ Len(dataset) = 0)) => pc # "crashed"

\* C8: given an empty table, the composition and the survival rate return an
\* empty result.
C8_EmptyTableEmptyResult ==
    (pc = "serving" /\ Answered) =>
        /\ (out.call = "update_graphs" /\ IsEmpty(df)) =>
               DOMAIN out.before.data = {} /\ DOMAIN out.rate.data = {}
        /\ (out.call = "update_graphs" /\ IsEmpty(df_after)) => DOMAIN out.after.data = {}
        /\ (out.call = "get_survival_fig" /\ IsEmpty(df_after)) => DOMAIN out.rate.data = {}

\* C9: when duplicate fares collapse the quartile edges, preparation does not
\* raise and fare_group comes from the three equal-width bins.
C9_QuartileFallback ==
    LET fares == Column(dataset, "fare")
    IN (loads /\ Len(NotNa(fares)) > 0 /\ QCutRaises(fares)) =>
           /\ err # "ValueError"
           /\ Prepared =>
                  \A i \in 1..Len(df.rows) :
                      df.rows[i].fare_group \in Range(CutLabels) \cup {NaStr}

\* C10: every row of the prepared table whose age, after the mean of the ages
\* present has replaced the missing ones, is below the top age edge has an
\* age_group, and every row has a fare_group, its fare missing or not.
C10_NoMissingGroup ==
    (Prepared /\ AgesPresent) =>
        \A i \in 1..Len(df.rows) :
            /\ Less(df.rows[i].age, AgeBins[Len(AgeBins)]) => df.rows[i].age_group # NaStr
            /\ df.rows[i].fare_group # NaStr

\* The embarked column as read, before imputation.
RawEmbarked == Column(dataset, "embarked")

Imputed == pc \in {"engineer", "farebin", "derive", "serving"} /\ Len(df.rows) > 0

MostFrequent(col, v) ==
    /\ v # NaStr
    /\ CountOf(col, v) > 0
    /\ \A i \in 1..Len(col) : col[i] # NaStr => CountOf(col, col[i]) <= CountOf(col, v)

FirstAt(col, v) == CHOOSE i \in 1..Len(col) : col[i] = v /\ \A j \in 1..(i - 1) : col[j] # v

Alphabet == <<"C", "Q", "S">>

Rank(v) == CHOOSE k \in 1..Len(Alphabet) : Alphabet[k] = v

\* C11 (as claimed): after imputation every embarked cell that was present
\* is unchanged, and every cell that was missing holds the most frequent
\* non-missing embarked value, on a tie the one that occurs first in row order.
C11_TieFirstInRowOrder ==
    Imputed =>
        \A i \in 1..Len(df.rows) :
            IF RawEmbarked[i] # NaStr
            THEN df.rows[i].embarked = RawEmbarked[i]
            ELSE LET v == df.rows[i].embarked
                 IN /\ MostFrequent(RawEmbarked, v)
                    /\ \A w \in Range(RawEmbarked) :
                           MostFrequent(RawEmbarked, w) =>
                               FirstAt(RawEmbarked, v) <= FirstAt(RawEmbarked, w)

\* C11 (amended): after imputation every embarked cell that was present is
\* unchanged, and every cell that was missing holds the most frequent
\* non-missing embarked value, on a tie the smallest one in sorted order.
C11_TieSmallestSorted ==
    Imputed =>
        \A i \in 1..Len(df.rows) :
            IF RawEmbarked[i] # NaStr
            THEN df.rows[i].embarked = RawEmbarked[i]
            ELSE LET v == df.rows[i].embarked
                 IN /\ MostFrequent(RawEmbarked, v)
                    /\ \A w \in Range(RawEmbarked) :
                           MostFrequent(RawEmbarked, w) => Rank(v) <= Rank(w)

C11_Witness ==
    /\ Imputed
    /\ RawEmbarked = <<"S", "C", NaStr>>
    /\ df.rows[3].embarked = "C"
\* C12: once the tables are prepared no operation changes them: every step
\* taken while serving, a selection event or a call of a chart function on
\* one of the tables, leaves df and df_after as they were.
C12_TablesNeverChange ==
    [][pc = "serving" => (df' = df /\ df_after' = df_after)]_vars
\* The titles the dropdown of the running variant enumerates.
Enumerated == IF variant = "app1" THEN DOMAIN GRAPH_OPTIONS ELSE DOMAIN FEATURE_OPTIONS

\* C13: a callback handed a selection outside its mapping ends in an error
\* and returns no figure at all, so none computed for some feature of the
\* mapping.
C13_UnknownSelectionRejected ==
    (out.call \in {"update_graphs", "update_graph"} /\ out.selected \notin Enumerated) =>
        /\ out.error # "none"
        /\ out.before = NoFigure
        /\ out.after = NoFigure
        /\ out.rate = NoFigure

C13_Witness ==
    /\ variant = "titanic_app"
    /\ out.call = "update_graphs"
    /\ out.selected = "Embarked Location"
    /\ out.error = "TypeError"
    /\ Len(df.rows) = 3
\* What the selection callback of the running variant returns for a title,
\* as a function of the tables alone.
Returned(sel) ==
    IF variant = "app1"
    THEN IF sel \in DOMAIN precalc
         THEN Result("update_graph", sel, "none", NoFigure, NoFigure, Bars(precalc[sel]))
         ELSE Result("update_graph", sel, "TypeError", NoFigure, NoFigure, NoFigure)
    ELSE IF sel \in DOMAIN FEATURE_OPTIONS
         THEN Result("update_graphs", sel, "none",
                     CompositionFig(df, FEATURE_OPTIONS[sel]),
                     CompositionFig(df_after, FEATURE_OPTIONS[sel]),
                     SurvivalFig(df, FEATURE_OPTIONS[sel]))
         ELSE Result("update_graphs", sel, "TypeError", NoFigure, NoFigure, NoFigure)

Selectable == IF variant = "app1" THEN GraphSelections ELSE Selections

\* C14: while serving, every step leaves the answer to each selection value
\* what it was, and the answer a selection event gives is that answer: a
\* value selected again, after any other selections, gets the same result.
\* (Returned reads variant, df, df_after and precalc only, so a step that
\* leaves these alone leaves every answer alone.)
C14_HistoryIndependent ==
    [][pc = "serving" =>
          /\ \/ <<variant, df, df_after, precalc>>' = <<variant, df, df_after, precalc>>
             \/ \A sel \in Selectable : Returned(sel)' = Returned(sel)
          /\ out'.call \in {"update_graphs", "update_graph"} =>
                 out' = Returned(out'.selected)]_vars

C14_Witness ==
    /\ variant = "app"
    /\ out.call = "update_graphs"
    /\ out.selected = "Sex"
    /\ Len(df.rows) = 2
    /\ DOMAIN out.rate.data = {"Male", "Female"}
PaneOf(pane) ==
    IF pane = "before" THEN out.before ELSE IF pane = "after" THEN out.after ELSE out.rate

\* C15: when the computation of one pane fails during a selection event of
\* a three-pane dashboard, that pane shows the no-data placeholder and the
\* other two panes still get their figures.
C15_PaneFailureIsolated ==
    \A k \in 1..Len(Panes) :
        (out.call = "update_graphs" /\ out.error = Raised(Panes[k])) =>
            \A j \in 1..Len(Panes) :
                IF j = k THEN PaneOf(Panes[j]) = NoData
                ELSE PaneOf(Panes[j]).kind \in {"bars", "annotation"}
\* The column a title of GRAPH_OPTIONS is about, and the rows of the
\* prepared table it covers.
GraphColumn(sel) ==
    CASE sel = "Survival by Sex" -> "sex_label"
      [] sel = "Survival by Age Group" -> "age_group"
      [] sel = "Survival by Fare Quartile" -> "fare_group"
      [] sel = "Survival by Family Size" -> "family_size"
      [] OTHER -> "pclass"

GraphPopulation(sel) ==
    IF sel = "Women Survival by Passenger Class"
    THEN SelectSeq(df.rows, LAMBDA r : r.sex = "female")
    ELSE df.rows

\* data holds, for each value of column f among rows, the share of survivors
\* of that group of rows in percent (to the second decimal).
RatesOver(data, rows, keys, f) ==
    /\ DOMAIN data = keys
    /\ \A c \in keys :
           LET g == OutGroup(rows, f, c)
           IN Len(g) > 0 /\ Within2Decimals(data[c], 100 * Survivors(g), Len(g))

\* data holds, for each of its categories, the number of rows with it.
CountsOver(data, rows, f) ==
    \A c \in DOMAIN data : data[c] = Len(OutGroup(rows, f, c))

\* C16: after a selection event the rates shown are those of the groups of
\* the prepared table df (in app1.py of df, or of its female rows), the
\* first pane counts df, and the survivors table df_after is counted by the
\* second pane only.
C16_RateOverPopulation ==
    /\ (pc = "serving" /\ out.call = "update_graphs" /\ out.error = "none") =>
           LET f == FEATURE_OPTIONS[out.selected]
           IN /\ RatesOver(out.rate.data, df.rows, OutKeys(df.rows, f), f)
              /\ CountsOver(out.before.data, df.rows, f)
              /\ CountsOver(out.after.data, df_after.rows, f)
    /\ (pc = "serving" /\ out.call = "update_graph" /\ out.error = "none") =>
           LET f == GraphColumn(out.selected)
               rows == GraphPopulation(out.selected)
           IN RatesOver(out.rate.data, rows, Observed(rows, f), f)

C16_Witness ==
    /\ variant = "titanic_app"
    /\ out.call = "update_graphs"
    /\ out.selected = "Sex"
    /\ Len(df.rows) = 2
    /\ Len(df_after.rows) = 1
    /\ DOMAIN out.rate.data = {"Male", "Female"}
    /\ out.rate.data["Male"] = <<0, 1>>
    /\ DOMAIN out.after.data = {"Female"}
\* C17: every row of the prepared table has family_size = sibsp + parch + 1,
\* which is at least 1.
C17_FamilySize ==
    "family_size" \in df.columns =>
        \A i \in 1..Len(df.rows) :
            /\ df.rows[i].family_size = df.rows[i].sibsp + df.rows[i].parch + 1
            /\ df.rows[i].family_size >= 1

C17_Witness ==
    /\ pc = "serving"
    /\ Len(df.rows) = 2
    /\ df.rows[1].sibsp = 1
    /\ df.rows[1].family_size = 2
    /\ df.rows[2].sibsp = 0
    /\ df.rows[2].family_size = 1
\* The table the last chart call was given.
Given == IF out.selected = "df" THEN df ELSE df_after

\* C18: the pie Survival draws for a table with rows gives the slice
\* 'Did not survive' the number of rows with survived = 0 and the slice
\* 'Survived' the number of rows with survived = 1, whichever is larger and
\* also when one of them is zero.
C18_PieSlices ==
    (out.call = "Survival" /\ Len(Given.rows) > 0) =>
        /\ out.error = "none"
        /\ out.before.kind = "pie"
        /\ out.before.data["Did not survive"] = Len(Given.rows) - Survivors(Given.rows)
        /\ out.before.data["Survived"] = Survivors(Given.rows)
====
